---- MODULE Spec2Model ----
(***************************************************************************)
(* Model of the AakashVaani backend gateway (backend/server.py):           *)
(*   - the per-client rate limiter check_rate_limit and the handler that   *)
(*     calls it, get_offline_data, under the asyncio scheduling of the     *)
(*     server (one event loop: a handler runs without interruption from    *)
(*     one await to the next);                                             *)
(*   - the application start-up (lifespan);                                *)
(*   - the outbound pipeline of nearby_search.                             *)
(* Time is in whole seconds, distances in hundredths of a kilometre,       *)
(* radii in tenths of a kilometre, coordinates in whole degrees.           *)
(***************************************************************************)
EXTENDS Integers, Sequences, FiniteSets, TLC

\* ------------------------------------------------------------ constants

RATE_LIMIT_CALLS == 100

RATE_LIMIT_PERIOD == 3600

\* DEFAULT_RADIUS_KM = 2.0 and MAX_RADIUS_KM = 10.0, in tenths of a kilometre
DEFAULT_RADIUS_KM == 20

MAX_RADIUS_KM == 100

\* Field(..., ge=0.1) of NearbySearchRequest.radius_km, in tenths of a kilometre
MIN_RADIUS_KM == 1

\* Field(20, ge=1, le=100) of NearbySearchRequest.limit
DEFAULT_LIMIT == 20

MIN_LIMIT == 1

MAX_LIMIT == 100

\* httpx.AsyncClient(timeout=15.0), in seconds
HTTP_TIMEOUT == 15

\* the factor of distance_km, in hundredths of a kilometre per degree
KM_PER_DEGREE == 11100

\* GeocodeRequest.limit: Field(5, ge=1, le=50)
GEOCODE_DEFAULT_LIMIT == 5
GEOCODE_MIN_LIMIT == 1
GEOCODE_MAX_LIMIT == 50

\* ------------------------------------------------------------ bounds

\* the clock of the event loop never passes MaxTime
MaxTime == 3601

\* requests suspended at an await at the same time
MaxInFlight == 2

\* rejected calls that are tracked past the quota, per client and window
MaxRejects == 2

\* elements in one answer of the upstream provider
MaxElements == 3

\* results in one answer of Nominatim
MaxResults == 2

\* responses whose background tasks have not all run
MaxPending == 2

\* items in one body of /sync/searches
MaxSyncItems == 2

\* calls of /sync/searches that reach check_rate_limit
MaxSyncCalls == 2

\* the clients (request.client.host), and the advances of the clock
ClientIps == {"X", "Y"}

TickSteps == {RATE_LIMIT_PERIOD, RATE_LIMIT_PERIOD + 1}

Min(a, b) == IF a <= b THEN a ELSE b

\* ------------------------------------------------------------ state

VARIABLES
    now,            \* asyncio.get_event_loop().time()
    call_counts,    \* the dict call_counts: client_ip -> [count, reset_at]
    window_calls,   \* history: calls of check_rate_limit per client since its window began
    window_admits,  \* history: of those, the calls that returned True
    app,            \* "starting" until lifespan has yielded, then "serving"
    db_is_connected,
    indexes,        \* the indexes created on the database
    offline_waiting,\* per client, get_offline_data requests suspended at db.searches.find
    response,       \* the last response sent: [ip, endpoint, status, detail];
                    \* none while /nearby works on its request
    pipe_pc,        \* the /nearby request: "idle", "UpstreamCalled", "Returned",
                    \* "ErrorReturned" (HTTPException raised), "Invalid" (422)
    request,        \* the validated NearbySearchRequest
    outbound,       \* the call to the provider: its query and its timeout
    waited,         \* seconds the handler has waited for the provider
    upstream_calls, \* calls made to the provider for the request
    upstream,       \* what the provider answered
    normalized,     \* the list pois when the loop over the elements ends
    body,           \* the list returned
    geo_pc,         \* the /geocode request: "idle", "UpstreamCalled", "Returned",
                    \* "ErrorReturned", "Invalid"
    geo_request,    \* the validated GeocodeRequest
    geo_upstream,   \* what Nominatim answered
    geo_body,       \* the list /geocode returned
    background,     \* the BackgroundTasks of the responses sent, each the list
                    \* of the documents its tasks still have to insert
    searches,       \* the documents of the collection db.searches
    last_write,     \* history: how the last insert_one ended
    queued          \* history: the items /sync/searches answered "queued" for

rl_vars == <<now, call_counts, window_calls, window_admits>>

pipe_vars == <<pipe_pc, request, outbound, waited, upstream_calls, upstream, normalized, body>>

geo_vars == <<geo_pc, geo_request, geo_upstream, geo_body>>

store_vars == <<background, searches, last_write, queued>>

NoResponse == [ip |-> "", endpoint |-> "", status |-> 0, detail |-> ""]

Response(ip, endpoint, status, detail) ==
    [ip |-> ip, endpoint |-> endpoint, status |-> status, detail |-> detail]

\* ------------------------------------------------------------ rate limiter

\* variant: the period is left out of the reset time
FreshWindowNoPeriod(t) == [count |-> 1, reset_at |-> t]

\* the branch of check_rate_limit that makes a fresh window
FreshWindow(t) == [count |-> 1, reset_at |-> t + RATE_LIMIT_PERIOD]

\* `client_ip not in call_counts`
IsNew(counts, ip) == ip \notin DOMAIN counts

\* `now > client["reset_at"]`
WindowExpired(client, t) == t > client.reset_at

\* variant: `>` for `>=`
QuotaReachedOffByOne(client) == client.count > RATE_LIMIT_CALLS

\* `client["count"] >= RATE_LIMIT_CALLS`
QuotaReached(client) == client.count >= RATE_LIMIT_CALLS

\* variant: the increment is not stored
IncrementLost(client) == client

\* `client["count"] += 1`
Increment(client) == [client EXCEPT !.count = @ + 1]

\* variant: every client shares the one record
DictSetShared(d, k, v) == [x \in DOMAIN d \cup {k} |-> v]

\* d with key k set to v (k is added when it is not there)
DictSet(d, k, v) == [x \in DOMAIN d \cup {k} |-> IF x = k THEN v ELSE d[x]]

\* variant: a refused call is counted too
RefuseCounted(counts, ip) == DictSet(counts, ip, Increment(counts[ip]))

\* `return False` at the quota: nothing is written to the table
Refuse(counts, ip) == counts

\* check_rate_limit(client_ip) at time t on the table counts:
\* the returned bool and the table it leaves
CheckRateLimit(counts, ip, t) ==
    IF IsNew(counts, ip)
    THEN [ok |-> TRUE, counts |-> DictSet(counts, ip, FreshWindow(t))]
    ELSE IF WindowExpired(counts[ip], t)
    THEN [ok |-> TRUE, counts |-> DictSet(counts, ip, FreshWindow(t))]
    ELSE IF QuotaReached(counts[ip])
    THEN [ok |-> FALSE, counts |-> Refuse(counts, ip)]
    ELSE [ok |-> TRUE, counts |-> DictSet(counts, ip, Increment(counts[ip]))]

\* a call of check_rate_limit that starts a window for ip
StartsWindow(counts, ip, t) ==
    IF IsNew(counts, ip) THEN TRUE ELSE WindowExpired(counts[ip], t)

\* the environment's bound: a client past its quota is followed for MaxRejects
\* more calls in the window
MayCall(ip) ==
    IF StartsWindow(call_counts, ip, now) THEN TRUE
    ELSE window_calls[ip] < RATE_LIMIT_CALLS + MaxRejects

\* the call made by a handler: the table and the history of the window
RateLimited(ip, r) ==
    /\ call_counts' = r.counts
    /\ window_calls' = [window_calls EXCEPT ![ip] =
           IF StartsWindow(call_counts, ip, now) THEN 1 ELSE @ + 1]
    /\ window_admits' = [window_admits EXCEPT ![ip] =
           (IF StartsWindow(call_counts, ip, now) THEN 0 ELSE @)
           + (IF r.ok THEN 1 ELSE 0)]
    /\ now' = now


\* ------------------------------------------------------------ /nearby: values

\* an Optional value: None, or a number
None == [some |-> FALSE, v |-> 0]

Some(x) == [some |-> TRUE, v |-> x]

\* a field of the JSON body of the caller: left out, null, or a number
RawOmitted == [given |-> FALSE, val |-> None]

RawNull == [given |-> TRUE, val |-> None]

RawValue(x) == [given |-> TRUE, val |-> Some(x)]

\* a value of an upstream element: a number, absent (None), or a string
Num(x) == [k |-> "num", v |-> x]

Missing == [k |-> "none", v |-> 0]

Text == [k |-> "str", v |-> 0]

\* an element of the provider's answer. type "notdict" is an entry that is
\* not a JSON object; center says whether the key "center" is there; tags_ok
\* says whether "tags" is an object (or left out)
Element(id, type, lat, lon, center, clat, clon, tags_ok) ==
    [id |-> id, type |-> type, lat |-> lat, lon |-> lon, center |-> center,
     clat |-> clat, clon |-> clon, tags_ok |-> tags_ok]

ElementPool ==
    { Element(1, "node", Num(0), Num(1), FALSE, Missing, Missing, TRUE),
      Element(2, "node", Num(1), Num(1), FALSE, Missing, Missing, TRUE),
      Element(3, "node", Num(2), Num(0), FALSE, Missing, Missing, TRUE),
      Element(4, "way", Missing, Missing, TRUE, Num(1), Num(0), TRUE),
      Element(5, "relation", Missing, Missing, TRUE, Num(0), Num(1), TRUE),
      Element(6, "way", Num(1), Num(1), FALSE, Missing, Missing, TRUE),
      Element(7, "node", Missing, Num(1), TRUE, Num(1), Num(1), TRUE),
      Element(8, "node", Text, Num(0), FALSE, Missing, Missing, TRUE),
      Element(9, "notdict", Missing, Missing, FALSE, Missing, Missing, TRUE),
      Element(10, "node", Num(0), Num(0), FALSE, Missing, Missing, FALSE) }

Batches == UNION { [1..n -> ElementPool] : n \in 0..MaxElements }

\* what the provider does with a call: the connection fails, nothing comes
\* within the timeout, or a response with a status and a payload
UpstreamStatuses == {200, 429, 504}

Payloads == {"invalid_json", "not_object", "object"}

Answer(kind, status, payload, elements) ==
    [kind |-> kind, status |-> status, payload |-> payload, elements |-> elements]

NoUpstream == Answer("none", 0, "", <<>>)

UpstreamAnswers ==
    { Answer("connect_error", 0, "", <<>>), Answer("timeout", 0, "", <<>>) }
    \cup { Answer("response", st, "object", <<>>) : st \in UpstreamStatuses \ {200} }
    \cup { Answer("response", 200, pl, <<>>) : pl \in Payloads \ {"object"} }
    \cup { Answer("response", 200, "object", es) : es \in Batches }

\* the bodies callers send to /nearby
RawLats == {0, 1, 91}

RawLngs == {0}

RawRadii == {RawOmitted, RawNull, RawValue(0), RawValue(MAX_RADIUS_KM),
             RawValue(MAX_RADIUS_KM + 1)}

RawLimits == {RawOmitted, RawNull, RawValue(0), RawValue(MIN_LIMIT), RawValue(2),
              RawValue(MAX_LIMIT), RawValue(MAX_LIMIT + 1)}

NoRequest == [lat |-> 0, lng |-> 0, radius_km |-> None, limit |-> None]

NoOutbound == [url |-> "", timeout |-> 0, kinds |-> {}, around |-> 0, lat |-> 0,
               lng |-> 0, out |-> "", cap |-> None, query_timeout |-> 0]

\* ------------------------------------------------------------ /nearby: functions

\* a pydantic field with a default: the default stands in for a field left out
FieldValue(raw, default) == IF raw.given THEN raw.val ELSE Some(default)

\* Optional[...] = Field(default, ge=lo, le=hi): None passes, a number is checked
FieldValid(opt, lo, hi) == ~opt.some \/ (lo <= opt.v /\ opt.v <= hi)

\* NearbySearchRequest built from the body
NearbySearchRequest(lat, lng, raw_radius, raw_limit) ==
    [lat |-> lat, lng |-> lng,
     radius_km |-> FieldValue(raw_radius, DEFAULT_RADIUS_KM),
     limit |-> FieldValue(raw_limit, DEFAULT_LIMIT)]

\* the validation of NearbySearchRequest
RequestValid(req) ==
    /\ -90 <= req.lat /\ req.lat <= 90
    /\ -180 <= req.lng /\ req.lng <= 180
    /\ FieldValid(req.radius_km, MIN_RADIUS_KM, MAX_RADIUS_KM)
    /\ FieldValid(req.limit, MIN_LIMIT, MAX_LIMIT)

\* `request.radius_km if request.radius_km is not None else DEFAULT_RADIUS_KM`
RadiusKm(req) == IF req.radius_km.some THEN req.radius_km.v ELSE DEFAULT_RADIUS_KM

\* radius_km * 1000, in metres (the radius is in tenths of a kilometre)
RadiusMeters(req) == RadiusKm(req) * 100

\* the Overpass query and the client that posts it: [out:json][timeout:25],
\* the three statements node, way and relation with (around:radius_meters,
\* lat,lng), and `out center;` with no count behind it (cap is None)
BuildOutbound(req) ==
    [url |-> "https://overpass-api.de/api/interpreter",
     timeout |-> HTTP_TIMEOUT,
     kinds |-> {"node", "way", "relation"},
     around |-> RadiusMeters(req), lat |-> req.lat, lng |-> req.lng,
     out |-> "center", cap |-> None, query_timeout |-> 25]

\* the least d with d * d + d >= x between lo and hi: the square root of x
\* rounded to the nearest integer
RECURSIVE RoundSqrtIn(_, _, _)
RoundSqrtIn(x, lo, hi) ==
    IF lo >= hi THEN lo
    ELSE LET mid == (lo + hi) \div 2 IN
         IF mid * mid + mid >= x THEN RoundSqrtIn(x, lo, mid)
         ELSE RoundSqrtIn(x, mid + 1, hi)

RoundSqrt(x) == RoundSqrtIn(x, 0, 46000)

\* round(((lat - request.lat)**2 + (lon - request.lng)**2)**0.5 * 111, 2),
\* in hundredths of a kilometre
DistanceKm(lat, lon, req) ==
    RoundSqrt(((lat - req.lat) * (lat - req.lat) + (lon - req.lng) * (lon - req.lng))
              * KM_PER_DEGREE * KM_PER_DEGREE)

\* variant: the center of an area is not read
CoordinatesNodeOnly(e) ==
    IF e.type = "node" THEN [has |-> TRUE, lat |-> e.lat, lon |-> e.lon]
    ELSE [has |-> FALSE, lat |-> Missing, lon |-> Missing]

\* the coordinate the loop takes for an element: its own for a node, the
\* center for any other element that has one
Coordinates(e) ==
    IF e.type = "node" THEN [has |-> TRUE, lat |-> e.lat, lon |-> e.lon]
    ELSE IF e.center THEN [has |-> TRUE, lat |-> e.clat, lon |-> e.clon]
    ELSE [has |-> FALSE, lat |-> Missing, lon |-> Missing]

\* one turn of the loop: the poi appended for the element, or nothing when the
\* turn ends in `continue` or in the except clause (AttributeError on an entry
\* that is no object or on tags that are none, TypeError on a string coordinate)
NormalizeElement(e, req) ==
    IF e.type = "notdict" THEN <<>>
    ELSE LET c == Coordinates(e) IN
         IF ~c.has THEN <<>>
         ELSE IF c.lat.k = "none" \/ c.lon.k = "none" THEN <<>>
         ELSE IF c.lat.k = "str" \/ c.lon.k = "str" THEN <<>>
         ELSE IF ~e.tags_ok THEN <<>>
         ELSE << [id |-> e.id, lat |-> c.lat.v, lng |-> c.lon.v,
                  distance |-> DistanceKm(c.lat.v, c.lon.v, req)] >>

\* the loop over result.get("elements", [])
RECURSIVE Normalize(_, _)
Normalize(elements, req) ==
    IF elements = <<>> THEN <<>>
    ELSE NormalizeElement(Head(elements), req) \o Normalize(Tail(elements), req)

\* variant: p goes before the entries that are as far as p
RECURSIVE InsertBeforeEqual(_, _)
InsertBeforeEqual(p, sorted) ==
    IF sorted = <<>> THEN <<p>>
    ELSE IF Head(sorted).distance < p.distance
    THEN <<Head(sorted)>> \o InsertBeforeEqual(p, Tail(sorted))
    ELSE <<p>> \o sorted

\* p put into a sorted list behind every entry that is not farther than p
RECURSIVE InsertByDistance(_, _)
InsertByDistance(p, sorted) ==
    IF sorted = <<>> THEN <<p>>
    ELSE IF Head(sorted).distance <= p.distance
    THEN <<Head(sorted)>> \o InsertByDistance(p, Tail(sorted))
    ELSE <<p>> \o sorted

\* pois.sort(key=distance): the sort of Python lists is stable
RECURSIVE SortByDistance(_)
SortByDistance(pois) ==
    IF pois = <<>> THEN <<>>
    ELSE InsertByDistance(pois[Len(pois)], SortByDistance(SubSeq(pois, 1, Len(pois) - 1)))

\* pois[:request.limit]; a slice to None is the whole list
Truncate(pois, limit) ==
    IF ~limit.some THEN pois ELSE SubSeq(pois, 1, Min(limit.v, Len(pois)))

\* variant: slice, then sort
RankTruncateFirst(pois, limit) == SortByDistance(Truncate(pois, limit))

\* the last two lines of the handler: sort, then slice
Rank(pois, limit) == Truncate(SortByDistance(pois), limit)

\* the exception the handler meets in an answer, "none" when there is none:
\* ConnectError and the timeouts are RequestErrors, raise_for_status raises
\* HTTPStatusError, response.json() raises JSONDecodeError, and result.get
\* raises AttributeError when the JSON is no object
RaisedBy(ans) ==
    IF ans.kind = "connect_error" THEN "ConnectError"
    ELSE IF ans.kind = "timeout" THEN "ReadTimeout"
    ELSE IF ans.status < 200 \/ ans.status > 299 THEN "HTTPStatusError"
    ELSE IF ans.payload = "invalid_json" THEN "JSONDecodeError"
    ELSE IF ans.payload = "not_object" THEN "AttributeError"
    ELSE "none"

\* isinstance(e, httpx.RequestError)
IsRequestError(exc) == exc \in {"ConnectError", "ReadTimeout"}

\* str(e) of what lands in `except Exception`
ExceptionText(exc, ans) ==
    IF exc = "HTTPStatusError"
    THEN (IF ans.status = 429 THEN "Client error '429 Too Many Requests' for url"
          ELSE IF ans.status = 504 THEN "Server error '504 Gateway Timeout' for url"
          ELSE "HTTP error for url")
    ELSE IF exc = "JSONDecodeError" THEN "Expecting value"
    ELSE "object has no attribute 'get'"

\* variant: one except clause for everything
ErrorStatusAlways500(exc) == 500

\* the status of the HTTPException the two except clauses raise
ErrorStatus(exc) == IF IsRequestError(exc) THEN 503 ELSE 500

\* and its detail
ErrorDetail(exc, ans) ==
    IF IsRequestError(exc) THEN "External service unavailable"
    ELSE ExceptionText(exc, ans)

\* ------------------------------------------------------------ start-up

\* lifespan, up to its yield. safe_db_operation returns None without calling
\* create_index while db_is_connected is False, which it is during start-up,
\* so no index creation runs and none can raise. mongo_client is None (and db
\* with it) when the client could not be built: the flag then stays False, so
\* `db is None or not db_is_connected` is `not db_is_connected`.
SafeDbOperation(connected, index, created) ==
    IF ~connected THEN created ELSE created \cup {index}

LifespanStartup(client_ok, ping_ok) ==
    /\ app = "starting"
    /\ app' = "serving"
    /\ IF client_ok /\ ping_ok
       THEN /\ indexes' = SafeDbOperation(db_is_connected, "users.email",
                            SafeDbOperation(db_is_connected, "markers.timestamp",
                              SafeDbOperation(db_is_connected, "searches.timestamp", indexes)))
            /\ db_is_connected' = TRUE
       ELSE /\ indexes' = indexes
            /\ db_is_connected' = FALSE
    /\ UNCHANGED <<rl_vars, offline_waiting, response, pipe_vars, geo_vars, store_vars>>

\* ------------------------------------------------------------ clock

Tick(d) ==
    /\ now + d <= MaxTime
    /\ now' = now + d
    /\ UNCHANGED <<call_counts, window_calls, window_admits, app, db_is_connected,
                   indexes, offline_waiting, response, pipe_vars, geo_vars, store_vars>>

\* ------------------------------------------------------------ /offline/data

InFlight == offline_waiting["X"] + offline_waiting["Y"]

\* get_offline_data up to its first await: the admission check, then either
\* the 429, the bundle without recent searches, or the wait for db.searches.find
GetOfflineData(ip) ==
    /\ app = "serving"
    /\ MayCall(ip)
    /\ LET r == CheckRateLimit(call_counts, ip, now) IN
       /\ RateLimited(ip, r)
       /\ IF ~r.ok
          THEN /\ response' = Response(ip, "offline", 429, "Rate limit exceeded")
               /\ offline_waiting' = offline_waiting
          ELSE IF db_is_connected
          THEN /\ InFlight < MaxInFlight
               /\ offline_waiting' = [offline_waiting EXCEPT ![ip] = @ + 1]
               /\ response' = response
          ELSE /\ response' = Response(ip, "offline", 200, "")
               /\ offline_waiting' = offline_waiting
    /\ UNCHANGED <<app, db_is_connected, indexes, pipe_vars, geo_vars, store_vars>>

\* get_offline_data from the result of db.searches.find to its return: the
\* bundle is returned whether the query gave the recent searches or raised
OfflineDataResume(ip) ==
    /\ offline_waiting[ip] > 0
    /\ offline_waiting' = [offline_waiting EXCEPT ![ip] = @ - 1]
    /\ response' = Response(ip, "offline", 200, "")
    /\ UNCHANGED <<rl_vars, app, db_is_connected, indexes, pipe_vars, geo_vars, store_vars>>

\* ------------------------------------------------------------ /nearby

\* POST /nearby up to the await of client.post: the body is validated (422
\* when it fails), the radius and the query are computed and the query is
\* posted. The handler takes no Request: it never sees the client address and
\* never calls check_rate_limit.
NearbySearch(lat, lng, raw_radius, raw_limit) ==
    /\ app = "serving"
    /\ pipe_pc = "idle"
    /\ LET req == NearbySearchRequest(lat, lng, raw_radius, raw_limit) IN
       IF ~RequestValid(req)
       THEN /\ pipe_pc' = "Invalid"
            /\ request' = NoRequest
            /\ outbound' = NoOutbound
            /\ upstream_calls' = 0
            /\ response' = Response("", "nearby", 422, "validation error")
       ELSE /\ pipe_pc' = "UpstreamCalled"
            /\ request' = req
            /\ outbound' = BuildOutbound(req)
            /\ upstream_calls' = 1
            /\ response' = NoResponse
    /\ waited' = 0
    /\ upstream' = NoUpstream
    /\ normalized' = <<>>
    /\ body' = <<>>
    /\ UNCHANGED <<rl_vars, app, db_is_connected, indexes, offline_waiting,
                   geo_vars, store_vars>>

\* the time the client allows for the provider passes without an answer
TimeoutElapses ==
    /\ pipe_pc = "UpstreamCalled"
    /\ waited < outbound.timeout
    /\ waited' = outbound.timeout
    /\ UNCHANGED <<rl_vars, app, db_is_connected, indexes, offline_waiting, response,
                   pipe_pc, request, outbound, upstream_calls, upstream, normalized, body,
                   geo_vars, store_vars>>

\* POST /nearby from the end of client.post to the response: the except
\* clauses, or the loop over the elements, the sort and the slice. The timeout
\* is raised when the time of the client is used up, anything else comes before.
NearbyRespond(ans) ==
    /\ pipe_pc = "UpstreamCalled"
    /\ IF ans.kind = "timeout" THEN waited = outbound.timeout ELSE waited < outbound.timeout
    /\ upstream' = ans
    /\ LET exc == RaisedBy(ans)
           pois == Normalize(ans.elements, request) IN
       IF exc # "none"
       THEN /\ pipe_pc' = "ErrorReturned"
            /\ response' = Response("", "nearby", ErrorStatus(exc), ErrorDetail(exc, ans))
            /\ normalized' = <<>>
            /\ body' = <<>>
       ELSE /\ pipe_pc' = "Returned"
            /\ response' = Response("", "nearby", 200, "")
            /\ normalized' = pois
            /\ body' = Rank(pois, request.limit)
    /\ waited' = 0
    /\ UNCHANGED <<rl_vars, app, db_is_connected, indexes, offline_waiting,
                   request, outbound, upstream_calls, geo_vars, store_vars>>


\* ------------------------------------------------------------ /geocode: values

GeoQueries == {"delhi"}

GeoRawLimits == {RawOmitted, RawValue(0), RawValue(2)}

NoGeocodeRequest == [query |-> "", limit |-> None]

\* GeocodeRequest built from the body
GeocodeRequest(query, raw_limit) ==
    [query |-> query, limit |-> FieldValue(raw_limit, GEOCODE_DEFAULT_LIMIT)]

\* the validation of GeocodeRequest
GeocodeRequestValid(req) == FieldValid(req.limit, GEOCODE_MIN_LIMIT, GEOCODE_MAX_LIMIT)

\* the key "type" of a result: absent, or a string
TypeAbsent == [some |-> FALSE, v |-> ""]

TypeOf(t) == [some |-> TRUE, v |-> t]

\* one result of Nominatim: "lat" and "lon" are numbers written as strings
\* (Num) or absent (Missing)
Place(lat, lon, display_name, type) ==
    [lat |-> lat, lon |-> lon, display_name |-> display_name, type |-> type]

ResultPool ==
    { Place(Num(28), Num(77), "Delhi", TypeOf("city")),
      Place(Num(27), Num(78), "Agra", TypeAbsent),
      Place(Missing, Num(0), "Nowhere", TypeAbsent) }

ResultBatches ==
    UNION { [1..n -> ResultPool] : n \in 0..MaxResults }

GeoAnswers ==
    { Answer("connect_error", 0, "", <<>>), Answer("timeout", 0, "", <<>>),
      Answer("response", 429, "object", <<>>),
      Answer("response", 200, "invalid_json", <<>>) }
    \cup { Answer("response", 200, "object", rs) : rs \in ResultBatches }

\* ------------------------------------------------------------ /geocode: functions

\* what the try block of geocode raises: as in nearby_search up to
\* response.json(), then result["lat"] of a result without that key
GeocodeRaisedBy(ans) ==
    IF RaisedBy(ans) # "none" THEN RaisedBy(ans)
    ELSE IF \E i \in 1..Len(ans.elements) : ans.elements[i].lat = Missing
    THEN "KeyError"
    ELSE "none"

\* str(e) in the detail of the 500
GeocodeErrorDetail(exc, ans) ==
    IF exc = "KeyError" THEN "'lat'" ELSE ErrorDetail(exc, ans)

\* one entry of formatted_results
FormatResult(result) ==
    [lat |-> result.lat.v, lng |-> result.lon.v, name |-> result.display_name,
     type |-> IF result.type.some THEN result.type.v ELSE "unknown"]

\* formatted_results
FormatResults(results) == [i \in 1..Len(results) |-> FormatResult(results[i])]

\* the document geocode hands to db.searches.insert_one
GeocodeDocument(req, formatted) ==
    [type |-> "geocode", query |-> req.query, results_count |-> Len(formatted), id |-> ""]

\* the document sync_searches hands to db.searches.insert_one for an item
SyncDocument(item) ==
    [type |-> "sync", query |-> "", results_count |-> 0, id |-> item]

\* background_tasks.add_task for the documents docs of one response: the
\* tasks wait in the response and run after it has been sent
AddTasks(tasks, docs) == IF docs = <<>> THEN tasks ELSE Append(tasks, docs)

\* variant: without the inner try, an exception of add_task reaches the
\* `except Exception` of the handler
GeocodeResultUnguarded(formatted, add_raised) ==
    IF add_raised
    THEN [pc |-> "ErrorReturned", status |-> 500, detail |-> "add_task", body |-> <<>>]
    ELSE [pc |-> "Returned", status |-> 200, detail |-> "", body |-> formatted]

\* what geocode returns after its `if db_is_connected` block: an exception of
\* add_task is logged by the inner except and formatted_results is returned
GeocodeResult(formatted, add_raised) ==
    [pc |-> "Returned", status |-> 200, detail |-> "", body |-> formatted]

\* ------------------------------------------------------------ /geocode

\* POST /geocode up to the await of client.get: validation (422), then the
\* parameters are built and the request is sent
Geocode(query, raw_limit) ==
    /\ app = "serving"
    /\ geo_pc = "idle"
    /\ LET req == GeocodeRequest(query, raw_limit) IN
       IF ~GeocodeRequestValid(req)
       THEN /\ geo_pc' = "Invalid"
            /\ geo_request' = NoGeocodeRequest
            /\ response' = Response("", "geocode", 422, "validation error")
       ELSE /\ geo_pc' = "UpstreamCalled"
            /\ geo_request' = req
            /\ response' = response
    /\ geo_upstream' = NoUpstream
    /\ geo_body' = <<>>
    /\ UNCHANGED <<rl_vars, app, db_is_connected, indexes, offline_waiting,
                   pipe_vars, store_vars>>

\* POST /geocode from the end of client.get to the response: the except
\* clauses, or the formatting, the history task and the return. add_raised:
\* background_tasks.add_task raised.
GeocodeRespond(ans, add_raised) ==
    /\ geo_pc = "UpstreamCalled"
    /\ geo_upstream' = ans
    /\ LET exc == GeocodeRaisedBy(ans) IN
       IF exc # "none"
       THEN /\ ~add_raised
            /\ geo_pc' = "ErrorReturned"
            /\ geo_body' = <<>>
            /\ response' = Response("", "geocode", ErrorStatus(exc),
                                    GeocodeErrorDetail(exc, ans))
            /\ background' = background
       ELSE LET formatted == FormatResults(ans.elements) IN
            IF db_is_connected
            THEN LET res == GeocodeResult(formatted, add_raised) IN
                 /\ Len(background) < MaxPending
                 /\ background' =
                       IF add_raised THEN background
                       ELSE AddTasks(background,
                                     <<GeocodeDocument(geo_request, formatted)>>)
                 /\ geo_pc' = res.pc
                 /\ geo_body' = res.body
                 /\ response' = Response("", "geocode", res.status, res.detail)
            ELSE /\ ~add_raised
                 /\ background' = background
                 /\ geo_pc' = "Returned"
                 /\ geo_body' = formatted
                 /\ response' = Response("", "geocode", 200, "")
    /\ UNCHANGED <<rl_vars, app, db_is_connected, indexes, offline_waiting,
                   pipe_vars, geo_request, searches, last_write, queued>>

\* the response of /geocode has gone out and the request is dropped
GeocodeDone ==
    /\ geo_pc \in {"Returned", "ErrorReturned", "Invalid"}
    /\ geo_pc' = "idle"
    /\ geo_request' = NoGeocodeRequest
    /\ geo_upstream' = NoUpstream
    /\ geo_body' = <<>>
    /\ UNCHANGED <<rl_vars, app, db_is_connected, indexes, offline_waiting, response,
                   pipe_vars, store_vars>>

\* ------------------------------------------------------------ specification

vars == <<now, call_counts, window_calls, window_admits, app, db_is_connected,
          indexes, offline_waiting, response, pipe_pc, request, outbound, waited,
          upstream_calls, upstream, normalized, body, geo_pc, geo_request,
          geo_upstream, geo_body, background, searches, last_write, queued>>

Init ==
    /\ now = 0
    /\ call_counts = <<>>
    /\ window_calls = [ip \in ClientIps |-> 0]
    /\ window_admits = [ip \in ClientIps |-> 0]
    /\ app = "starting"
    /\ db_is_connected = FALSE
    /\ indexes = {}
    /\ offline_waiting = [ip \in ClientIps |-> 0]
    /\ response = NoResponse
    /\ pipe_pc = "idle"
    /\ request = NoRequest
    /\ outbound = NoOutbound
    /\ waited = 0
    /\ upstream_calls = 0
    /\ upstream = NoUpstream
    /\ normalized = <<>>
    /\ body = <<>>
    /\ geo_pc = "idle"
    /\ geo_request = NoGeocodeRequest
    /\ geo_upstream = NoUpstream
    /\ geo_body = <<>>
    /\ background = <<>>
    /\ searches = {}
    /\ last_write = "none"
    /\ queued = {}

NextRateLimit ==
    \/ \E c \in BOOLEAN, p \in BOOLEAN : LifespanStartup(c, p)
    \/ \E d \in TickSteps : Tick(d)
    \/ \E ip \in ClientIps : GetOfflineData(ip)
    \/ \E ip \in ClientIps : OfflineDataResume(ip)

SpecRateLimit == Init /\ [][NextRateLimit]_vars

\* the response has gone out and the request with its locals is dropped
RequestDone ==
    /\ pipe_pc \in {"Returned", "ErrorReturned", "Invalid"}
    /\ pipe_pc' = "idle"
    /\ request' = NoRequest
    /\ outbound' = NoOutbound
    /\ waited' = 0
    /\ upstream_calls' = 0
    /\ upstream' = NoUpstream
    /\ normalized' = <<>>
    /\ body' = <<>>
    /\ UNCHANGED <<rl_vars, app, db_is_connected, indexes, offline_waiting, response,
                   geo_vars, store_vars>>

NextNearby ==
    \/ \E c \in BOOLEAN, p \in BOOLEAN : LifespanStartup(c, p)
    \/ /\ pipe_pc = "idle"
       /\ \E lat \in RawLats, lng \in RawLngs, rr \in RawRadii, rl \in RawLimits :
             NearbySearch(lat, lng, rr, rl)
    \/ TimeoutElapses
    \/ /\ pipe_pc = "UpstreamCalled"
       /\ \E ans \in UpstreamAnswers : NearbyRespond(ans)
    \/ RequestDone

SpecNearby == Init /\ [][NextNearby]_vars

\* ------------------------------------------------------------ background tasks

\* the list without its i-th entry
RemoveAt(seq, i) == SubSeq(seq, 1, i - 1) \o SubSeq(seq, i + 1, Len(seq))

\* the tasks of a response after its next insert_one: the rest when it
\* succeeded; none when it raised, for the exception ends the run of the tasks
AfterTask(docs, ok) == IF ok THEN Tail(docs) ELSE <<>>

\* the next task of the i-th response that waits runs db.searches.insert_one,
\* after the response has been sent; ok: the insert succeeded
RunBackgroundTask(i, ok) ==
    /\ i \in 1..Len(background)
    /\ LET doc == Head(background[i])
           rest == AfterTask(background[i], ok) IN
       /\ searches' = IF ok THEN searches \cup {doc} ELSE searches
       /\ background' = IF rest = <<>> THEN RemoveAt(background, i)
                        ELSE [background EXCEPT ![i] = rest]
    /\ last_write' = IF ok THEN "ok" ELSE "failed"
    /\ UNCHANGED <<rl_vars, app, db_is_connected, indexes, offline_waiting, response,
                   pipe_vars, geo_vars, queued>>

\* ------------------------------------------------------------ /sync/searches

SyncItems == {"s1", "s2"}

\* the bodies callers send to /sync/searches
SyncBodies == UNION { [1..n -> SyncItems] : n \in 0..MaxSyncItems }

Range(seq) == { seq[i] : i \in 1..Len(seq) }

SyncCalls == window_calls["X"] + window_calls["Y"]

\* the branch of sync_searches for a database that is not connected: a
\* warning is logged and the answer is returned; nothing is stored
SyncOffline(tasks, data) == tasks

\* POST /sync/searches, which has one await only, the admission check, that
\* does not suspend
SyncSearches(ip, data) ==
    /\ app = "serving"
    /\ IF ~db_is_connected
       THEN /\ response' = Response(ip, "sync_searches", 200, "queued")
            /\ queued' = queued \cup Range(data)
            /\ background' = SyncOffline(background, data)
            /\ UNCHANGED rl_vars
       ELSE /\ SyncCalls < MaxSyncCalls
            /\ Len(background) < MaxPending
            /\ LET r == CheckRateLimit(call_counts, ip, now) IN
               /\ RateLimited(ip, r)
               /\ IF ~r.ok
                  THEN /\ response' = Response(ip, "sync_searches", 429,
                                               "Rate limit exceeded")
                       /\ background' = background
                  ELSE /\ response' = Response(ip, "sync_searches", 200, "synced")
                       /\ background' = AddTasks(background,
                             [i \in 1..Len(data) |-> SyncDocument(data[i])])
            /\ queued' = queued
    /\ UNCHANGED <<app, db_is_connected, indexes, offline_waiting, pipe_vars,
                   geo_vars, searches, last_write>>

NextGeocode ==
    \/ \E c \in BOOLEAN, p \in BOOLEAN : LifespanStartup(c, p)
    \/ /\ geo_pc = "idle"
       /\ \E q \in GeoQueries, rl \in GeoRawLimits : Geocode(q, rl)
    \/ /\ geo_pc = "UpstreamCalled"
       /\ \E ans \in GeoAnswers, add_raised \in BOOLEAN : GeocodeRespond(ans, add_raised)
    \/ GeocodeDone
    \/ \E i \in 1..MaxPending, ok \in BOOLEAN : RunBackgroundTask(i, ok)

SpecGeocode == Init /\ [][NextGeocode]_vars

NextSync ==
    \/ \E c \in BOOLEAN, p \in BOOLEAN : LifespanStartup(c, p)
    \/ \E ip \in ClientIps, data \in SyncBodies : SyncSearches(ip, data)
    \/ \E i \in 1..MaxPending, ok \in BOOLEAN : RunBackgroundTask(i, ok)

SpecSync == Init /\ [][NextSync]_vars

\* ------------------------------------------------------------ rate limiter: properties

\* the entry of ip in a table, <<>> when it has none
Entry(counts, ip) == IF ip \in DOMAIN counts THEN <<counts[ip]>> ELSE <<>>

\* this step holds a call of check_rate_limit for ip: a call always changes
\* the entry of its client or the number of calls of its window
Called(ip) ==
    \/ Entry(call_counts', ip) # Entry(call_counts, ip)
    \/ window_calls'[ip] # window_calls[ip]

\* ip is in a window it has used up
Exhausted(ip) ==
    /\ ip \in DOMAIN call_counts
    /\ now <= call_counts[ip].reset_at
    /\ call_counts[ip].count >= RATE_LIMIT_CALLS

\* C1: of the calls a client has made in its current window (no rollover
\* between them), the first RATE_LIMIT_CALLS returned True and every later one
\* returned False: after k calls, min(k, RATE_LIMIT_CALLS) were admitted, for
\* every k.
C1_FirstNAdmitted ==
    \A ip \in ClientIps :
        window_admits[ip] = Min(window_calls[ip], RATE_LIMIT_CALLS)

\* the call after the quota has been made and refused
C1_Witness ==
    /\ window_calls["X"] = RATE_LIMIT_CALLS + 1
    /\ window_admits["X"] = RATE_LIMIT_CALLS
    /\ response = Response("X", "offline", 429, "Rate limit exceeded")

\* C2: a call made after the reset time of its client has passed returns True,
\* sets the counter to 1 and the reset time to now + RATE_LIMIT_PERIOD,
\* whatever the counter was.
C2_RolloverAdmits ==
    [][\A ip \in ClientIps :
          (/\ ip \in DOMAIN call_counts
           /\ now > call_counts[ip].reset_at
           /\ Called(ip))
          => /\ call_counts'[ip] = [count |-> 1, reset_at |-> now + RATE_LIMIT_PERIOD]
             /\ window_admits'[ip] = 1
             /\ window_calls'[ip] = 1
             /\ response' = response \/ response'.status # 429]_vars

\* X was refused (the last response sent), then the clock passed its reset
\* time and its next call, still waiting for the database, began a window
C2_Witness ==
    /\ response = Response("X", "offline", 429, "Rate limit exceeded")
    /\ offline_waiting["X"] = 1
    /\ "X" \in DOMAIN call_counts
    /\ call_counts["X"] = [count |-> 1, reset_at |-> now + RATE_LIMIT_PERIOD]
    /\ now > RATE_LIMIT_PERIOD

\* C3: a call for one client leaves the entry of every other client as it was
\* (absent stays absent), and the first call of a client is admitted while
\* another client is in a window it has used up.
C3_PerIdentity ==
    [][\A ip \in ClientIps : \A o \in ClientIps \ {ip} :
          /\ Called(ip) => Entry(call_counts', o) = Entry(call_counts, o)
          /\ (Called(ip) /\ Exhausted(o) /\ ip \notin DOMAIN call_counts)
             => /\ Entry(call_counts', ip) = <<FreshWindow(now)>>
                /\ window_admits'[ip] = 1]_vars

\* X has been refused its 101st call and Y's first call, the last response
\* sent, was answered 200 in the same window
C3_Witness ==
    /\ Exhausted("X")
    /\ window_calls["X"] = RATE_LIMIT_CALLS + 1
    /\ ~db_is_connected
    /\ "Y" \in DOMAIN call_counts
    /\ call_counts["Y"] = [count |-> 1, reset_at |-> RATE_LIMIT_PERIOD]
    /\ window_calls["Y"] = 1
    /\ response = Response("Y", "offline", 200, "")

\* C4: with requests of one client in flight at the same time, the counter of
\* the client is the number of its calls admitted in the window (no increment
\* is lost, no window is begun twice), and that number never passes
\* RATE_LIMIT_CALLS.
C4_AtomicCount ==
    \A ip \in ClientIps :
        /\ window_admits[ip] <= RATE_LIMIT_CALLS
        /\ ip \in DOMAIN call_counts => call_counts[ip].count = window_admits[ip]
        /\ ip \notin DOMAIN call_counts => window_calls[ip] = 0

\* two requests of X are suspended at the database at once, both counted,
\* the window is used up and a further call of X was refused
C4_Witness ==
    /\ offline_waiting["X"] = MaxInFlight
    /\ Exhausted("X")
    /\ window_calls["X"] > RATE_LIMIT_CALLS
    /\ window_admits["X"] = RATE_LIMIT_CALLS

\* ------------------------------------------------------------ /nearby: properties

\* the status the handler gives to a fault of its own
InternalErrorStatus == ErrorStatus("AttributeError")

\* C5: a /nearby request has passed the admission check of the rate limiter
\* before its call to the provider is made: when the call is out, some client
\* has a call of check_rate_limit on record.
C5_CheckedBeforeUpstream ==
    pipe_pc = "UpstreamCalled" => \E ip \in ClientIps : window_calls[ip] > 0

\* C6: a status of the provider outside 2xx ends the request with an outcome
\* that is not the one of an internal fault.
C6_UpstreamRejectedDistinct ==
    (/\ pipe_pc = "ErrorReturned"
     /\ upstream.kind = "response"
     /\ (upstream.status < 200 \/ upstream.status > 299))
    => response.status # InternalErrorStatus

\* C7: the call to the provider carries the fixed timeout and is made once;
\* when the time is used up the timeout is raised; a failed connection or a
\* timeout ends the request with 503 "External service unavailable" and no
\* list, without a second call.
C7_UnavailableIs503 ==
    /\ pipe_pc = "UpstreamCalled"
       => /\ outbound.timeout = HTTP_TIMEOUT
          /\ waited <= outbound.timeout
          /\ upstream_calls = 1
          /\ waited = outbound.timeout => ENABLED NearbyRespond(Answer("timeout", 0, "", <<>>))
    /\ upstream.kind \in {"connect_error", "timeout"}
       => /\ pipe_pc = "ErrorReturned"
          /\ response = Response("", "nearby", 503, "External service unavailable")
          /\ body = <<>>
          /\ upstream_calls = 1

\* the provider did not answer in time and the request ended with 503
C7_Witness ==
    /\ pipe_pc = "ErrorReturned"
    /\ upstream.kind = "timeout"
    /\ response.status = 503

Sorted(pois) ==
    \A i \in 1..Len(pois) : \A j \in i..Len(pois) : pois[i].distance <= pois[j].distance

\* the entries of pois that are not farther than d
Within(pois, d) == Cardinality({i \in 1..Len(pois) : pois[i].distance <= d})

\* C8: the list returned is sorted by distance, has min(limit, number of
\* normalized elements) entries, each a normalized element, and holds the
\* nearest ones: for every distance d it has as many entries within d as the
\* normalized elements have, up to its length. With limit null nothing is cut.
C8_NearestSorted ==
    pipe_pc = "Returned" =>
        /\ Sorted(body)
        /\ Len(body) = IF request.limit.some THEN Min(request.limit.v, Len(normalized))
                       ELSE Len(normalized)
        /\ \A i \in 1..Len(body) : \E j \in 1..Len(normalized) : body[i] = normalized[j]
        /\ \A j \in 1..Len(normalized) :
              Within(body, normalized[j].distance)
                  = Min(Len(body), Within(normalized, normalized[j].distance))

\* the list was cut, and the provider's order had a farther element before a
\* nearer one among those a cut before the sort would have kept
C8_Witness ==
    /\ pipe_pc = "Returned"
    /\ request.limit = Some(2)
    /\ Len(normalized) = 3
    /\ normalized[1].distance > normalized[3].distance
    /\ normalized[2].distance > normalized[3].distance
    /\ Len(body) = 2

\* C9: the radius put into the query is within (0, MAX_RADIUS_KM] and the
\* limit the list is cut to is within [MIN_LIMIT, MAX_LIMIT], whatever the
\* caller sent, so the list has at most MAX_LIMIT entries.
C9_ClampedBeforeUse ==
    pipe_pc \in {"UpstreamCalled", "Returned"} =>
        /\ 0 < outbound.around /\ outbound.around <= MAX_RADIUS_KM * 100
        /\ request.limit.some
        /\ MIN_LIMIT <= request.limit.v /\ request.limit.v <= MAX_LIMIT
        /\ Len(body) <= request.limit.v

\* what the claim keeps of an element: a point with its own coordinate, an
\* area or relation with a center, and no error while it is processed
C10_IsPoint(e) == e.type = "node" /\ e.lat.k = "num" /\ e.lon.k = "num"

C10_IsAreaWithCenter(e) ==
    e.type \in {"way", "relation"} /\ e.center /\ e.clat.k = "num" /\ e.clon.k = "num"

C10_Kept(e) == (C10_IsPoint(e) \/ C10_IsAreaWithCenter(e)) /\ e.tags_ok

C10_Coordinate(e) ==
    IF C10_IsPoint(e) THEN <<e.lat.v, e.lon.v>> ELSE <<e.clat.v, e.clon.v>>

\* C10: every answer of the provider with a list of elements is answered 200;
\* the normalized list is the kept elements in the provider's order, a point
\* with its own coordinate and an area with its center; its length is the
\* number of elements less the number dropped.
C10_ElementWise ==
    (upstream.kind = "response" /\ upstream.status = 200 /\ upstream.payload = "object")
    => /\ pipe_pc = "Returned"
       /\ response.status = 200
       /\ LET kept == SelectSeq(upstream.elements, C10_Kept)
              dropped == {i \in 1..Len(upstream.elements) : ~C10_Kept(upstream.elements[i])}
          IN /\ Len(normalized) = Len(upstream.elements) - Cardinality(dropped)
             /\ Len(normalized) = Len(kept)
             /\ \A i \in 1..Len(kept) :
                   /\ normalized[i].id = kept[i].id
                   /\ <<normalized[i].lat, normalized[i].lng>> = C10_Coordinate(kept[i])

\* a point, an area with only a center and an element with neither: two results
C10_Witness ==
    /\ pipe_pc = "Returned"
    /\ Len(upstream.elements) = 3
    /\ upstream.elements[1].type = "node"
    /\ upstream.elements[2].type = "way" /\ upstream.elements[2].center
    /\ upstream.elements[3].type = "way" /\ ~upstream.elements[3].center
    /\ Len(normalized) = 2
    /\ normalized[2].lat = upstream.elements[2].clat.v

\* C12 as stated: the query carries the limit of the request as a cap on the
\* number of elements, beside the radius in metres, the center output, the
\* execution timeout and the three kinds.
C12_QueryCarriesLimit ==
    pipe_pc = "UpstreamCalled" =>
        /\ outbound.cap.some
        /\ outbound.cap = request.limit
        /\ outbound.around = RadiusKm(request) * 100
        /\ outbound.out = "center"
        /\ outbound.query_timeout = 25
        /\ outbound.kinds = {"node", "way", "relation"}

\* the entries of pois at distance d, in their order
RECURSIVE AtDistance(_, _)
AtDistance(pois, d) ==
    IF pois = <<>> THEN <<>>
    ELSE (IF Head(pois).distance = d THEN <<Head(pois)>> ELSE <<>>)
         \o AtDistance(Tail(pois), d)

IsPrefix(a, b) == Len(a) <= Len(b) /\ a = SubSeq(b, 1, Len(a))

\* C13: ranking the list returned once more with the same limit gives the
\* same list, and the entries returned at one distance are in the order the
\* provider gave them: they are the first of the normalized entries at that
\* distance.
C13_IdempotentStable ==
    pipe_pc = "Returned" =>
        /\ Rank(body, request.limit) = body
        /\ \A i \in 1..Len(body) :
              IsPrefix(AtDistance(body, body[i].distance),
                       AtDistance(normalized, body[i].distance))

\* two different elements at one distance were returned in the provider's
\* order, behind a nearer one that the provider gave last
C13_Witness ==
    /\ pipe_pc = "Returned"
    /\ Len(normalized) = 3
    /\ Len(body) = 3
    /\ normalized[1].distance = normalized[2].distance
    /\ normalized[1].id > normalized[2].id
    /\ normalized[3].distance < normalized[1].distance
    /\ body = <<normalized[3], normalized[1], normalized[2]>>

\* ------------------------------------------------------------ start-up: properties

AllIndexes == {"searches.timestamp", "markers.timestamp", "users.email"}

\* C15: db_is_connected is True only when the three indexes have been created
\* on the database.
C15_ConnectedAfterIndexes ==
    db_is_connected => indexes = AllIndexes

\* ------------------------------------------------------------ rate limiter: table

\* C16: every entry of the table has a counter from 1 to RATE_LIMIT_CALLS; a
\* refused call leaves the entry of its client as it was; an entry that is in
\* the table stays in it.
C16_TableInvariant ==
    /\ [](\A ip \in DOMAIN call_counts :
             1 <= call_counts[ip].count /\ call_counts[ip].count <= RATE_LIMIT_CALLS)
    /\ [][\A ip \in ClientIps :
             /\ (/\ window_calls'[ip] = window_calls[ip] + 1
                 /\ window_admits'[ip] = window_admits[ip])
                => Entry(call_counts', ip) = Entry(call_counts, ip)
             /\ ip \in DOMAIN call_counts => ip \in DOMAIN call_counts']_vars

\* X was refused with its counter at the quota, and its entry is still there
\* after its reset time has passed
C16_Witness ==
    /\ "X" \in DOMAIN call_counts
    /\ call_counts["X"].count = RATE_LIMIT_CALLS
    /\ window_calls["X"] > RATE_LIMIT_CALLS
    /\ now > call_counts["X"].reset_at

\* ------------------------------------------------------------ history: properties

\* the tasks that wait
RECURSIVE TaskCount(_)
TaskCount(tasks) ==
    IF tasks = <<>> THEN 0 ELSE Len(Head(tasks)) + TaskCount(Tail(tasks))

\* Nominatim answered 200 with a list of results that all have their keys
WellFormed(ans) ==
    /\ ans.kind = "response" /\ ans.status = 200 /\ ans.payload = "object"
    /\ \A i \in 1..Len(ans.elements) : ans.elements[i].lat.k = "num"

\* C11: the history write of /geocode is detached from the request. A step
\* that runs a write, whether it succeeds or fails, changes neither the
\* response nor the list returned; an answer of the provider that can be
\* formatted is returned with status 200, one entry per result, whether the
\* database is connected or not and whether the task could be added or not;
\* and the response is out in the very step that adds the task, before the
\* write has run.
C11_WriteDetached ==
    [][/\ TaskCount(background') < TaskCount(background)
          => /\ response' = response
             /\ geo_pc' = geo_pc
             /\ geo_body' = geo_body
       /\ (geo_pc = "UpstreamCalled" /\ geo_pc' # geo_pc /\ WellFormed(geo_upstream'))
          => /\ geo_pc' = "Returned"
             /\ response' = Response("", "geocode", 200, "")
             /\ Len(geo_body') = Len(geo_upstream'.elements)
             /\ \A i \in 1..Len(geo_body') :
                   /\ geo_body'[i].lat = geo_upstream'.elements[i].lat.v
                   /\ geo_body'[i].lng = geo_upstream'.elements[i].lon.v
                   /\ geo_body'[i].name = geo_upstream'.elements[i].display_name
       /\ TaskCount(background') > TaskCount(background)
          => /\ geo_pc' = "Returned"
             /\ response'.status = 200
             /\ searches' = searches]_vars

\* /geocode has answered 200 with two results while its own write still
\* waits, after an earlier write has failed
C11_Witness ==
    /\ geo_pc = "Returned"
    /\ response = Response("", "geocode", 200, "")
    /\ Len(geo_body) = 2
    /\ last_write = "failed"
    /\ background # <<>>
    /\ background[Len(background)] = <<GeocodeDocument(geo_request, geo_body)>>
    /\ GeocodeDocument(geo_request, geo_body) \notin searches

\* C14: an item that /sync/searches answered "queued" for is kept by the
\* server, among the writes that wait or in the collection searches, so that
\* it can be written once the database is connected.
C14_QueuedIsKept ==
    \A item \in queued :
        \/ SyncDocument(item) \in searches
        \/ \E i \in 1..Len(background) : SyncDocument(item) \in Range(background[i])

====
